---- MODULE Spec2Model ----
(***************************************************************************)
(* dictionary::Dictionary<Key, Value> (include/dictionary/dictionary.h).   *)
(* The std::unordered_map member `data` is modelled as the sequence of its *)
(* nodes <<key, value>> in iteration order.  Every method is translated    *)
(* from its body; the std::unordered_map primitives it calls (find,        *)
(* operator[], erase, the range constructor, operator==) are modelled by   *)
(* what they do on that node sequence.                                     *)
(***************************************************************************)
EXTENDS Integers, Sequences, FiniteSets, TLC

\* ------------------------------------------------------------------ bounds
MaxKey == 2
MaxVal == 1
MaxInit == 3
MaxHist == 3

Keys == 1..MaxKey
Values == 0..MaxVal

\* Value{} : the value-initialised mapped value that operator[] stores
DefaultValue == 0

VARIABLES data, other, pre, call, ret, err, init,
          everInserted, nAdded, nRemoved, nCleared

vars == <<data, other, pre, call, ret, err, init,
          everInserted, nAdded, nRemoved, nCleared>>
hist == <<everInserted, nAdded, nRemoved, nCleared>>

\* --------------------------------------------- std::unordered_map pieces
Range(s) == {s[i] : i \in 1..Len(s)}

\* every iteration order a hash table holding the node set S can have
Orderings(S) ==
  {s \in [1..Cardinality(S) -> S] :
      \A i, j \in 1..Cardinality(S) : i # j => s[i] # s[j]}

\* data.find(key): position of the node with that key, 0 for end()
find(d, key) ==
  IF \E i \in 1..Len(d) : d[i][1] = key
    THEN CHOOSE i \in 1..Len(d) : d[i][1] = key
    ELSE 0

\* data[key]: finds the node, or adds <<key, Value{}>> when there is none
\* (the table may rehash, so any iteration order can result)
subscript(d, key) ==
  IF find(d, key) # 0
    THEN {d}
    ELSE Orderings(Range(d) \cup {<<key, DefaultValue>>})

\* `ref = value` through the reference data[key] returned
assign(d, key, value) ==
  [i \in 1..Len(d) |-> IF d[i][1] = key THEN <<key, value>> ELSE d[i]]

\* mutant: erase(begin()) in place of erase(key)
eraseFirst(d, key) == IF find(d, key) # 0 THEN Tail(d) ELSE d

\* mutant: the whole table goes when the key is found
eraseAll(d, key) == IF find(d, key) # 0 THEN <<>> ELSE d

\* data.erase(key): the nodes left; the others keep their relative order
erase(d, key) == SelectSeq(d, LAMBDA n : n[1] # key)

\* ------------------------------------------------------ Dictionary methods
\* mutant: data.emplace(key, value), which keeps the value of a present key
insertNoOverwrite(d, key, value) ==
  IF find(d, key) # 0
    THEN {d}
    ELSE Orderings(Range(d) \cup {<<key, value>>})

insert(d, key, value) == {assign(d1, key, value) : d1 \in subscript(d, key)}

\* mutant: a default value in place of std::nullopt
getOrDefault(d, key) ==
  LET it == find(d, key)
  IN  IF it # 0 THEN <<d[it][2]>> ELSE <<DefaultValue>>

\* std::optional<Value>: <<>> is std::nullopt, <<v>> holds v
get(d, key) ==
  LET it == find(d, key)
  IN  IF it # 0 THEN <<d[it][2]>> ELSE <<>>

contains(d, key) == find(d, key) # 0

\* mutant: erase(key) >= 0
removeAlwaysTrue(d, key) == Len(d) - Len(erase(d, key)) >= 0

remove(d, key) == Len(d) - Len(erase(d, key)) > 0

size(d) == Len(d)

empty(d) == Len(d) = 0

\* mutant: the traversal starts one node late
keysSkipFirst(d) == [i \in 1..(Len(d) - 1) |-> d[i + 1][1]]

keys(d) == [i \in 1..Len(d) |-> d[i][1]]

values(d) == [i \in 1..Len(d) |-> d[i][2]]

\* ----------------------------------------------------------------- state
Call(op, key, value) == [op |-> op, key |-> key, value |-> value]

Init ==
  /\ data = <<>>
  /\ other = <<>>
  /\ pre = <<>>
  /\ call = Call("construct", 0, 0)
  /\ ret = "void"
  /\ err = "none"
  /\ init = <<>>
  /\ everInserted = {}
  /\ nAdded = 0
  /\ nRemoved = 0
  /\ nCleared = 0

\* a call that returns normally
Returns(op, key, value, result) ==
  /\ pre' = data
  /\ call' = Call(op, key, value)
  /\ ret' = result
  /\ err' = "none"

Insert(key, value) ==
  /\ \E d \in insert(data, key, value) : data' = d
  /\ Returns("insert", key, value, "void")

Get(key) ==
  /\ Returns("get", key, 0, get(data, key))
  /\ UNCHANGED data

Contains(key) ==
  /\ Returns("contains", key, 0, contains(data, key))
  /\ UNCHANGED data

Remove(key) ==
  /\ data' = erase(data, key)
  /\ Returns("remove", key, 0, remove(data, key))

Clear ==
  /\ data' = <<>>
  /\ Returns("clear", 0, 0, "void")

Size ==
  /\ Returns("size", 0, 0, size(data))
  /\ UNCHANGED data

Empty ==
  /\ Returns("empty", 0, 0, empty(data))
  /\ UNCHANGED data

KeysCall ==
  /\ Returns("keys", 0, 0, keys(data))
  /\ UNCHANGED data

ValuesCall ==
  /\ Returns("values", 0, 0, values(data))
  /\ UNCHANGED data

\* mutant: data.at(key), which throws on an absent key and adds nothing
SubscriptAt(key) ==
  LET it == find(data, key)
  IN  /\ pre' = data
      /\ call' = Call("subscript", key, 0)
      /\ IF it # 0
           THEN ret' = data[it][2] /\ err' = "none"
           ELSE ret' = "void" /\ err' = "out_of_range"
      /\ UNCHANGED data

\* Value& operator[](const Key&): the value read through the reference
Subscript(key) ==
  /\ \E d \in subscript(data, key) :
        /\ data' = d
        /\ Returns("subscript", key, 0, d[find(d, key)][2])

\* dict[key] = value: the caller's store through the reference
SubscriptAssign(key, value) ==
  /\ \E d \in subscript(data, key) : data' = assign(d, key, value)
  /\ Returns("subscript_assign", key, value, value)

\* mutant: the const overload forwards to data[key] and creates the entry
SubscriptConstVivify(key) ==
  /\ \E d \in subscript(data, key) :
        /\ data' = d
        /\ ret' = d[find(d, key)][2]
  /\ pre' = data
  /\ call' = Call("subscript_const", key, 0)
  /\ err' = "none"

\* const Value& operator[](const Key&) const
SubscriptConst(key) ==
  LET it == find(data, key)
  IN  /\ pre' = data
      /\ call' = Call("subscript_const", key, 0)
      /\ IF it # 0
           THEN ret' = data[it][2] /\ err' = "none"
           ELSE ret' = "void" /\ err' = "out_of_range"
      /\ UNCHANGED data

\* the variables only the other specifications use
Frame == UNCHANGED <<other, init, hist>>

Next ==
  \/ \E k \in Keys, v \in Values : Insert(k, v) /\ Frame
  \/ \E k \in Keys : Get(k) /\ Frame
  \/ \E k \in Keys : Contains(k) /\ Frame
  \/ \E k \in Keys : Remove(k) /\ Frame
  \/ Clear /\ Frame
  \/ Size /\ Frame
  \/ Empty /\ Frame
  \/ KeysCall /\ Frame
  \/ ValuesCall /\ Frame
  \/ \E k \in Keys : Subscript(k) /\ Frame
  \/ \E k \in Keys, v \in Values : SubscriptAssign(k, v) /\ Frame
  \/ \E k \in Keys : SubscriptConst(k) /\ Frame

Spec == Init /\ [][Next]_vars

\* the node sequence never holds a key twice
UniqueKeys(d) == \A i, j \in 1..Len(d) : d[i][1] = d[j][1] => i = j

TypeOK ==
  /\ data \in Seq(Keys \X Values)
  /\ UniqueKeys(data)
  /\ err \in {"none", "out_of_range"}

\* -------------------------------- construction from an initializer list
\* mutant: insert_or_assign, the later pair replaces the earlier one
insertOrAssign(S, n) == {m \in S : m[1] # n[1]} \cup {n}

\* a_uniq.insert(t): adds the node unless a node with its key is there
uniqueInsert(S, n) ==
  IF \E m \in S : m[1] = n[1] THEN S ELSE S \cup {n}

\* data(init): the range constructor inserts the elements of init in turn
RECURSIVE rangeInsert(_, _)
rangeInsert(S, s) ==
  IF s = <<>> THEN S ELSE rangeInsert(uniqueInsert(S, Head(s)), Tail(s))

\* Dictionary(std::initializer_list<std::pair<const Key, Value>> init)
Dictionary(list) == Orderings(rangeInsert({}, list))

InitLists == UNION {[1..n -> Keys \X Values] : n \in 0..MaxInit}

InitCtor ==
  /\ init \in InitLists
  /\ data = <<>>
  /\ other = <<>>
  /\ pre = <<>>
  /\ call = Call("none", 0, 0)
  /\ ret = "void"
  /\ err = "none"
  /\ everInserted = {}
  /\ nAdded = 0
  /\ nRemoved = 0
  /\ nCleared = 0

Construct ==
  /\ call.op = "none"
  /\ \E d \in Dictionary(init) : data' = d
  /\ Returns("construct_list", 0, 0, "void")
  /\ UNCHANGED <<other, init, hist>>

NextCtor == Construct

SpecCtor == InitCtor /\ [][NextCtor]_vars

\* ------------------------------------------------------------- equality
\* mutant: element-wise comparison in iteration order
equalsOrdered(d, o) == d = o

\* data == other.data: std::unordered_map's operator==
equals(d, o) ==
  /\ Len(d) = Len(o)
  /\ \A i \in 1..Len(d) :
        LET it == find(o, d[i][1])
        IN  it # 0 /\ o[it][2] = d[i][2]

notEquals(d, o) == ~equals(d, o)

\* a call that changed one of the two dictionaries compared
Mutated ==
  /\ pre' = <<>>
  /\ call' = Call("mutate", 0, 0)
  /\ ret' = "void"
  /\ err' = "none"

LhsInsert(key, value) ==
  /\ \E d \in insert(data, key, value) : data' = d
  /\ Mutated
  /\ UNCHANGED <<other, init, hist>>

RhsInsert(key, value) ==
  /\ \E d \in insert(other, key, value) : other' = d
  /\ Mutated
  /\ UNCHANGED <<data, init, hist>>

LhsRemove(key) ==
  /\ data' = erase(data, key)
  /\ Mutated
  /\ UNCHANGED <<other, init, hist>>

RhsRemove(key) ==
  /\ other' = erase(other, key)
  /\ Mutated
  /\ UNCHANGED <<data, init, hist>>

Equal ==
  /\ Returns("eq", 0, 0, equals(data, other))
  /\ UNCHANGED <<data, other, init, hist>>

NotEqual ==
  /\ Returns("ne", 0, 0, notEquals(data, other))
  /\ UNCHANGED <<data, other, init, hist>>

NextEq ==
  \/ \E k \in Keys, v \in Values : LhsInsert(k, v)
  \/ \E k \in Keys, v \in Values : RhsInsert(k, v)
  \/ \E k \in Keys : LhsRemove(k)
  \/ \E k \in Keys : RhsRemove(k)
  \/ Equal
  \/ NotEqual

SpecEq == Init /\ [][NextEq]_vars

\* ------------------------------------------- the calls counted (histories)
\* everInserted: the keys insert or operator[] was ever called with;
\* nAdded: the calls that added a key absent at the time; nRemoved: the
\* remove calls that returned true; nCleared: the entries clear discarded.
HistInsert(key, value) ==
  /\ contains(data, key) \/ nAdded < MaxHist
  /\ Insert(key, value)
  /\ everInserted' = everInserted \cup {key}
  /\ nAdded' = nAdded + (IF contains(data, key) THEN 0 ELSE 1)
  /\ UNCHANGED <<nRemoved, nCleared, other, init>>

HistSubscript(key) ==
  /\ contains(data, key) \/ nAdded < MaxHist
  /\ Subscript(key)
  /\ everInserted' = everInserted \cup {key}
  /\ nAdded' = nAdded + (IF contains(data, key) THEN 0 ELSE 1)
  /\ UNCHANGED <<nRemoved, nCleared, other, init>>

HistRemove(key) ==
  /\ Remove(key)
  /\ nRemoved' = nRemoved + (IF ret' THEN 1 ELSE 0)
  /\ UNCHANGED <<everInserted, nAdded, nCleared, other, init>>

HistClear ==
  /\ Clear
  /\ nCleared' = nCleared + size(data)
  /\ UNCHANGED <<everInserted, nAdded, nRemoved, other, init>>

NextHist ==
  \/ \E k \in Keys, v \in Values : HistInsert(k, v)
  \/ \E k \in Keys : HistSubscript(k)
  \/ \E k \in Keys : HistRemove(k)
  \/ HistClear

SpecHist == Init /\ [][NextHist]_vars

\* ------------------------------------------------- properties under Spec
\* the value stored under a key that is present
Stored(d, key) == d[find(d, key)][2]

\* C3: after insert(k, v), contains(k) is true and get(k) holds v; the size
\* grew by one when k was absent before, and is the same (the old value is
\* overwritten) when k was already present.
C3_InsertPostcondition ==
  call.op = "insert" =>
    /\ contains(data, call.key)
    /\ get(data, call.key) = <<call.value>>
    /\ size(data) = size(pre) + (IF contains(pre, call.key) THEN 0 ELSE 1)

C3_Witness ==
  /\ call.op = "insert"
  /\ contains(pre, call.key)
  /\ Stored(pre, call.key) # call.value
  /\ size(data) > 1

\* C4: read-only subscript on an absent key fails with out_of_range and
\* creates no entry; on a present key it returns the stored value; no other
\* operation ever fails.
C4_ConstSubscriptOnlyFailure ==
  /\ call.op = "subscript_const" =>
       /\ data = pre
       /\ IF \E n \in Range(pre) : n[1] = call.key
            THEN err = "none" /\ <<call.key, ret>> \in Range(pre)
            ELSE err = "out_of_range"
  /\ call.op # "subscript_const" => err = "none"

C4_Witness ==
  /\ call.op = "subscript_const"
  /\ err = "out_of_range"
  /\ size(data) > 0
  /\ ~contains(data, call.key)

\* C5: mutable subscript on an absent key adds the key with the default
\* value, returns that default and grows the size by exactly one; on a
\* present key it returns the stored value and changes no size and no value.
C5_MutableSubscript ==
  call.op = "subscript" =>
    IF contains(pre, call.key)
      THEN /\ ret = Stored(pre, call.key)
           /\ size(data) = size(pre)
           /\ Range(data) = Range(pre)
      ELSE /\ size(data) = size(pre) + 1
           /\ contains(data, call.key)
           /\ get(data, call.key) = <<DefaultValue>>
           /\ ret = DefaultValue

C5_Witness ==
  /\ call.op = "subscript"
  /\ ~contains(pre, call.key)
  /\ size(pre) > 0
  /\ contains(data, call.key)

\* C6: remove(k) returns true exactly when k was present; then k is absent
\* afterwards and the size is one less; when k was absent it returns false
\* and nothing changes, so a second remove(k) is a no-op returning false.
C6_Remove ==
  call.op = "remove" =>
    /\ ret = contains(pre, call.key)
    /\ ret => ~contains(data, call.key) /\ size(data) = size(pre) - 1
    /\ ~ret => data = pre
    /\ ~remove(data, call.key) /\ erase(data, call.key) = data

C6_Witness ==
  /\ call.op = "remove"
  /\ ret = TRUE
  /\ size(data) > 0
  /\ ~contains(data, call.key)

\* C8: keys() and values() have length size(); every key of keys() is
\* contained, every present key is in keys() exactly once, and every stored
\* value is in values().
C8_KeysValues ==
  /\ call.op = "keys" =>
       /\ Len(ret) = size(data)
       /\ \A i \in 1..Len(ret) : contains(data, ret[i])
       /\ \A k \in Keys : contains(data, k) =>
            Cardinality({i \in 1..Len(ret) : ret[i] = k}) = 1
  /\ call.op = "values" =>
       /\ Len(ret) = size(data)
       /\ \A k \in Keys : contains(data, k) =>
            \E i \in 1..Len(ret) : <<ret[i]>> = get(data, k)

C8_Witness ==
  /\ call.op \in {"keys", "values"}
  /\ Len(ret) = MaxKey
  /\ \E i, j \in 1..Len(data) : data[i][2] # data[j][2]

\* C9: get and contains never fail and never change the dictionary; get
\* holds the stored value when the key is present and is empty otherwise,
\* so get has a value exactly when contains is true.
C9_GetContainsPure ==
  /\ call.op \in {"get", "contains"} => data = pre /\ err = "none"
  /\ call.op = "get" =>
       /\ Len(ret) \in {0, 1}
       /\ Len(ret) = 1 <=> contains(data, call.key)
       /\ Len(ret) = 1 => <<call.key, ret[1]>> \in Range(data)
  /\ call.op = "contains" =>
       (ret <=> \E n \in Range(data) : n[1] = call.key)

C9_Witness ==
  /\ call.op = "get"
  /\ Len(ret) = 1
  /\ size(data) > 1

\* C10: insert(k, v), remove(k) and mutable subscript on k touch key k only:
\* contains(j) and get(j) are the same before and after for every j # k.
C10_OtherKeysUntouched ==
  call.op \in {"insert", "remove", "subscript", "subscript_assign"} =>
    \A j \in Keys \ {call.key} :
      /\ contains(data, j) = contains(pre, j)
      /\ get(data, j) = get(pre, j)

C10_Witness ==
  /\ call.op = "remove"
  /\ ret = TRUE
  /\ \E j \in Keys \ {call.key} : contains(pre, j) /\ contains(data, j)

\* ------------------------------------------- properties under SpecCtor
\* C1 as claimed: a key given more than once maps to the value of the LATER
\* pair, and size() is the number of distinct keys of the list.
C1_LastPairWins ==
  call.op = "construct_list" =>
    /\ size(data) = Cardinality({init[i][1] : i \in 1..Len(init)})
    /\ \A i \in 1..Len(init) :
         (\A j \in (i + 1)..Len(init) : init[j][1] # init[i][1]) =>
            get(data, init[i][1]) = <<init[i][2]>>

\* C1 amended: a key given more than once maps to the value of the FIRST
\* pair with that key, and size() is the number of distinct keys of the list.
C1_FirstPairWins ==
  call.op = "construct_list" =>
    /\ size(data) = Cardinality({init[i][1] : i \in 1..Len(init)})
    /\ \A i \in 1..Len(init) :
         (\A j \in 1..(i - 1) : init[j][1] # init[i][1]) =>
            get(data, init[i][1]) = <<init[i][2]>>

C1_Witness ==
  /\ call.op = "construct_list"
  /\ \E i, j \in 1..Len(init) :
        i < j /\ init[i][1] = init[j][1] /\ init[i][2] # init[j][2]
  /\ size(data) > 1

\* --------------------------------------------- properties under SpecEq
\* C7: two dictionaries are equal exactly when they hold the same set of
\* key-value pairs, whatever the order the pairs were inserted in; equality
\* is reflexive and symmetric and != is its negation.
C7_Equality ==
  /\ equals(data, other) <=> Range(data) = Range(other)
  /\ equals(data, data) /\ equals(other, other)
  /\ equals(data, other) <=> equals(other, data)
  /\ notEquals(data, other) <=> ~equals(data, other)
  /\ call.op = "eq" => (ret <=> Range(data) = Range(other))
  /\ call.op = "ne" => (ret <=> Range(data) # Range(other))

C7_Witness ==
  /\ call.op = "eq"
  /\ ret = TRUE
  /\ Len(data) > 1
  /\ data # other

\* ------------------------------------------- properties under SpecHist
\* C2 as claimed: size() is the number of distinct keys ever inserted minus
\* the number of remove calls that returned true.
C2_DistinctMinusRemoved ==
  size(data) = Cardinality(everInserted) - nRemoved

\* C2 amended: size() is the number of insert / mutable-subscript calls that
\* added a key absent at the time, minus the number of remove calls that
\* returned true, minus the number of entries clear calls discarded.
C2_AddedMinusRemovedCleared ==
  size(data) = nAdded - nRemoved - nCleared

C2_Witness ==
  /\ nRemoved > 0
  /\ nCleared > 0
  /\ nAdded > Cardinality(everInserted)
  /\ size(data) > 0
====
